---- MODULE Spec2Model ----
(***************************************************************************)
(* A model of src/main.py: the task dispatcher run_task, the action        *)
(* registry TASK_ACTION_HANDLERS, the result builders and the four         *)
(* handlers (file/create, file/edit, file/delete, command/run), acting on  *)
(* a filesystem tree rooted at the server's working directory.             *)
(***************************************************************************)
EXTENDS Integers, Sequences, FiniteSets, TLC

VARIABLES
    TASK_ACTION_HANDLERS,  \* main.py:41, the action -> handler table
    fs,                    \* the filesystem below (and including) the cwd
    served,                \* the number of run_task invocations so far
    last                   \* the last run_task invocation: input, pre-state, outcome

vars == <<TASK_ACTION_HANDLERS, fs, served, last>>

\* How many tasks one behaviour of the model serves.
MaxTasks == 2

(***************************************************************************)
(* Python values.  A value a task field may hold is None, an int or a str; *)
(* an absent key reads as None through dict.get.                           *)
(***************************************************************************)
PyNone == [t |-> "none", i |-> 0, s |-> ""]
PyInt(n) == [t |-> "int", i |-> n, s |-> ""]
PyStr(x) == [t |-> "str", i |-> 0, s |-> x]

\* bool(v): None, 0 and '' are falsy.
Truthy(v) ==
    CASE v.t = "none" -> FALSE
      [] v.t = "int" -> v.i # 0
      [] v.t = "str" -> v.s # ""

\* '%s' % (v,)
Str(v) ==
    CASE v.t = "none" -> "None"
      [] v.t = "int" -> ToString(v.i)
      [] v.t = "str" -> v.s

DEFAULT_ENCODING == "utf-8"

(***************************************************************************)
(* Task fields.  path: None or a string, held as its components ('' has    *)
(* none).  content: None or a dict with any of the keys value, encoding.   *)
(* arguments: None or a list of strings.  environment: None or a mapping.  *)
(***************************************************************************)
NonePath == [has |-> FALSE, parts |-> <<>>]
SomePath(p) == [has |-> TRUE, parts |-> p]

NoneContent == [has |-> FALSE, keys |-> {}, value |-> <<>>, encoding |-> ""]
Content(keys, value, encoding) ==
    [has |-> TRUE, keys |-> keys,
     value |-> IF "value" \in keys THEN value ELSE <<>>,
     encoding |-> IF "encoding" \in keys THEN encoding ELSE ""]

NoneArgs == [has |-> FALSE, list |-> <<>>]
SomeArgs(l) == [has |-> TRUE, list |-> l]

NoneEnv == [has |-> FALSE, vars |-> [k \in {} |-> ""]]
SomeEnv(m) == [has |-> TRUE, vars |-> m]

\* The empty task {}: every key absent.
EmptyTask ==
    [id |-> PyNone, action |-> PyNone, path |-> NonePath, content |-> NoneContent,
     command |-> PyNone, arguments |-> NoneArgs, environment |-> NoneEnv]

\* bool(task): an empty dict is falsy.
TruthyTask(task) == task # EmptyTask

\* bool(content): None and {} are falsy.
TruthyContent(content) == content.has /\ content.keys # {}

(***************************************************************************)
(* Result builders, main.py:13-38.  In message texts the source's          *)
(* backquote is written as an apostrophe.                                  *)
(***************************************************************************)
\* A builder that always emits the error key.
make_task_success_WithError(task) ==
    [id |-> task.id, action |-> task.action, success |-> TRUE,
     error |-> [type |-> "", message |-> ""]]

make_task_success(task) ==
    [id |-> task.id, action |-> task.action, success |-> TRUE]

\* A builder that forgets the task's id.
make_task_error_NoId(task, type, message) ==
    [id |-> PyNone, action |-> task.action, success |-> FALSE,
     error |-> [type |-> type, message |-> message]]

make_task_error(task, type, message) ==
    [id |-> task.id, action |-> task.action, success |-> FALSE,
     error |-> [type |-> type, message |-> message]]

\* json.dumps of one value.
JsonValue(v) ==
    CASE v.t = "none" -> "null"
      [] v.t = "int" -> ToString(v.i)
      [] v.t = "str" -> "\"" \o v.s \o "\""

\* json.dumps(response), main.py:230: keys in insertion order.
json_dumps(response) ==
    "{\"id\": " \o JsonValue(response.id)
    \o ", \"action\": " \o JsonValue(response.action)
    \o ", \"success\": " \o (IF response.success THEN "true" ELSE "false")
    \o (IF "error" \in DOMAIN response
        THEN ", \"error\": {\"type\": \"" \o response.error.type
             \o "\", \"message\": \"" \o response.error.message \o "\"}"
        ELSE "")
    \o "}"

(***************************************************************************)
(* The registry, main.py:41-64.                                            *)
(***************************************************************************)
TASKS ==
    << <<"file/create", "task_file_create">>,
       <<"file/edit", "task_file_edit">>,
       <<"file/delete", "task_file_delete">>,
       <<"command/run", "task_command_run">> >>

\* A registration that rebinds an action that is already bound.
register_task_action_handler_Overwrites(reg, action, handler) ==
    [exc |-> "", reg |-> [a \in DOMAIN reg \cup {action} |->
                            IF a = action THEN handler ELSE reg[a]]]

\* register_task_action_handler: the table afterwards, or a ValueError.
register_task_action_handler(reg, action, handler) ==
    IF action \in DOMAIN reg
    THEN [exc |-> "ValueError", reg |-> reg]
    ELSE [exc |-> "", reg |-> [a \in DOMAIN reg \cup {action} |->
                                 IF a = action THEN handler ELSE reg[a]]]

\* A loop that stops one entry short of the end of TASKS.
RegisterAll_SkipsLast(n) ==
    [a \in {TASKS[k][1] : k \in 1..(n - 1)} |->
        TASKS[CHOOSE k \in 1..(n - 1) : TASKS[k][1] = a][2]]

\* The loop of main.py:204-205 over the first n entries of TASKS.
RECURSIVE RegisterAll(_)
RegisterAll(n) ==
    IF n = 0 THEN [a \in {} |-> ""]
    ELSE register_task_action_handler(RegisterAll(n - 1), TASKS[n][1], TASKS[n][2]).reg

\* get_task_action_handler: the handler bound to 'action', or a ValueError.
get_task_action_handler(reg, action) ==
    IF ~Truthy(action)
    THEN [exc |-> "ValueError", msg |-> "'handler' must be specified", handler |-> ""]
    ELSE IF action.t # "str" \/ action.s \notin DOMAIN reg
    THEN [exc |-> "ValueError",
          msg |-> "A handler for '" \o Str(action) \o "' does not exist.",
          handler |-> ""]
    ELSE [exc |-> "", msg |-> "", handler |-> reg[action.s]]

(***************************************************************************)
(* The filesystem: a function from the paths that exist to their entries.  *)
(* <<>> is the working directory ('.'), which Path('') names.              *)
(***************************************************************************)
Dir == [kind |-> "dir", bytes |-> <<>>]
File(b) == [kind |-> "file", bytes |-> b]

Parent(p) == SubSeq(p, 1, Len(p) - 1)

IsPrefix(p, q) == Len(p) <= Len(q) /\ SubSeq(q, 1, Len(p)) = p

\* str(Path(p))
RECURSIVE Join(_)
Join(p) ==
    IF Len(p) = 1 THEN p[1] ELSE Join(Parent(p)) \o "/" \o p[Len(p)]

PathStr(p) == IF p = <<>> THEN "." ELSE Join(p)

\* Path.exists() and Path.is_dir()
exists(f, p) == p \in DOMAIN f
is_dir(f, p) == p \in DOMAIN f /\ f[p].kind = "dir"

\* Why an entry cannot be made at p: its parent is missing or is a file.
ParentError(f, p) ==
    IF p = <<>> \/ is_dir(f, Parent(p)) THEN ""
    ELSE IF exists(f, Parent(p)) THEN "NotADirectoryError"
    ELSE "FileNotFoundError"

Put(f, p, e) == [q \in DOMAIN f \cup {p} |-> IF q = p THEN e ELSE f[q]]

\* Path.mkdir()
mkdir(f, p) ==
    IF exists(f, p) THEN [exc |-> "FileExistsError", fs |-> f]
    ELSE IF ParentError(f, p) # "" THEN [exc |-> ParentError(f, p), fs |-> f]
    ELSE [exc |-> "", fs |-> Put(f, p, Dir)]

\* An unlink that empties the file and leaves its name in the directory.
unlink_Truncates(f, p) ==
    IF ~exists(f, p) THEN [exc |-> "FileNotFoundError", fs |-> f]
    ELSE IF is_dir(f, p) THEN [exc |-> "IsADirectoryError", fs |-> f]
    ELSE [exc |-> "", fs |-> Put(f, p, File(<<>>))]

\* Path.unlink()
unlink(f, p) ==
    IF ~exists(f, p) THEN [exc |-> "FileNotFoundError", fs |-> f]
    ELSE IF is_dir(f, p) THEN [exc |-> "IsADirectoryError", fs |-> f]
    ELSE [exc |-> "", fs |-> [q \in DOMAIN f \ {p} |-> f[q]]]

\* A removal that takes p and its children but leaves deeper entries behind.
rmtree_Shallow(f, p) ==
    [exc |-> "",
     fs |-> [q \in {r \in DOMAIN f : ~(IsPrefix(p, r) /\ Len(r) <= Len(p) + 1)}
               |-> f[q]]]

\* shutil.rmtree(p): everything below p goes, then p itself; the working
\* directory '.' cannot be removed (rmdir('.') fails with EINVAL).
rmtree(f, p) ==
    IF p = <<>>
    THEN [exc |-> "OSError", fs |-> [q \in {<<>>} |-> f[q]]]
    ELSE [exc |-> "", fs |-> [q \in {r \in DOMAIN f : ~IsPrefix(p, r)} |-> f[q]]]

(***************************************************************************)
(* Text encoding.  A str is a sequence of code points; a file holds bytes. *)
(***************************************************************************)
KnownEncodings == {"utf-8", "ascii", "latin-1"}

EncodeChar(c, encoding) ==
    CASE encoding = "utf-8" ->
           IF c < 128 THEN <<c>> ELSE <<192 + (c \div 64), 128 + (c % 64)>>
      [] encoding = "latin-1" -> <<c>>
      [] encoding = "ascii" -> <<c>>

Encodable(c, encoding) ==
    CASE encoding = "utf-8" -> c < 2048
      [] encoding = "latin-1" -> c < 256
      [] encoding = "ascii" -> c < 128

RECURSIVE Encode(_, _)
Encode(value, encoding) ==
    IF value = <<>> THEN <<>>
    ELSE EncodeChar(Head(value), encoding) \o Encode(Tail(value), encoding)

\* with p.open(mode='w', encoding=encoding) as f: f.write(value)
\* The file is created or truncated by open(); the codec is looked up and the
\* value is checked and encoded after that.
open_write(f, p, content) ==
    LET encoding == IF "encoding" \in content.keys
                    THEN content.encoding ELSE DEFAULT_ENCODING
        opened == Put(f, p, File(<<>>))
    IN  IF ParentError(f, p) # "" THEN [exc |-> ParentError(f, p), fs |-> f]
        ELSE IF is_dir(f, p) THEN [exc |-> "IsADirectoryError", fs |-> f]
        ELSE IF encoding \notin KnownEncodings
        THEN [exc |-> "LookupError", fs |-> opened]
        ELSE IF "value" \notin content.keys
        THEN [exc |-> "TypeError", fs |-> opened]
        ELSE IF \E k \in 1..Len(content.value) :
                   ~Encodable(content.value[k], encoding)
        THEN [exc |-> "UnicodeEncodeError", fs |-> opened]
        ELSE [exc |-> "", fs |-> Put(f, p, File(Encode(content.value, encoding)))]

(***************************************************************************)
(* What one handler call does: it returns a response or raises, leaves a   *)
(* filesystem, and may have started a child process.                       *)
(***************************************************************************)
NoSpawn ==
    [has |-> FALSE, argv |-> <<>>, cwd |-> NonePath, env |-> NoneEnv, returncode |-> 0]

NoResponse == [none |-> TRUE]

Returned(response, f, spawn) ==
    [kind |-> "returned", exc |-> "", response |-> response, fs |-> f, spawn |-> spawn]

Raised(exc, f, spawn) ==
    [kind |-> "raised", exc |-> exc, response |-> NoResponse, fs |-> f, spawn |-> spawn]

\* A create that refuses only existing directories, so it writes over files.
task_file_create_Overwrites(task, f) ==
    IF ~task.path.has THEN Raised("TypeError", f, NoSpawn)
    ELSE
    LET task_path == task.path.parts
        made == IF ~TruthyContent(task.content)
                THEN mkdir(f, task_path)
                ELSE open_write(f, task_path, task.content)
    IN  IF is_dir(f, task_path)
        THEN Returned(make_task_error(task, "argument",
                 "A file or directory at path '" \o PathStr(task_path)
                 \o "' already exists"), f, NoSpawn)
        ELSE IF made.exc # "" THEN Raised(made.exc, made.fs, NoSpawn)
        ELSE Returned(make_task_success(task), made.fs, NoSpawn)

\* task_file_create, main.py:67-91
task_file_create(task, f) ==
    IF ~TruthyTask(task)
    THEN Returned(make_task_error(task, "argument", "'task' must be specified"),
                  f, NoSpawn)
    ELSE IF ~task.path.has THEN Raised("TypeError", f, NoSpawn)
    ELSE
    LET task_path == task.path.parts
        content == task.content
        made == IF ~TruthyContent(content)
                THEN mkdir(f, task_path)
                ELSE open_write(f, task_path, content)
    IN  IF exists(f, task_path)
        THEN Returned(make_task_error(task, "argument",
                 "A file or directory at path '" \o PathStr(task_path)
                 \o "' already exists"), f, NoSpawn)
        ELSE IF made.exc # "" THEN Raised(made.exc, made.fs, NoSpawn)
        ELSE Returned(make_task_success(task), made.fs, NoSpawn)

\* An edit that opens the file for writing before it looks at content.
task_file_edit_OpensFirst(task, f) ==
    IF ~task.path.has THEN Raised("TypeError", f, NoSpawn)
    ELSE
    LET task_path == task.path.parts
        content == task.content
        written == open_write(f, task_path, content)
    IN  IF ~exists(f, task_path)
        THEN Returned(make_task_error(task, "argument",
                 "A file or directory at path '" \o PathStr(task_path)
                 \o "' does not exist"), f, NoSpawn)
        ELSE IF is_dir(f, task_path)
        THEN Returned(make_task_error(task, "argument",
                 "A directory at path '" \o PathStr(task_path)
                 \o "' already exists"), f, NoSpawn)
        ELSE IF ~TruthyContent(content)
        THEN Returned(make_task_error(task, "argument",
                 "'content' must exist for file editing"),
                 Put(f, task_path, File(<<>>)), NoSpawn)
        ELSE IF written.exc # "" THEN Raised(written.exc, written.fs, NoSpawn)
        ELSE Returned(make_task_success(task), written.fs, NoSpawn)

\* task_file_edit, main.py:94-129
task_file_edit(task, f) ==
    IF ~TruthyTask(task)
    THEN Returned(make_task_error(task, "argument", "'task' must be specified"),
                  f, NoSpawn)
    ELSE IF ~task.path.has THEN Raised("TypeError", f, NoSpawn)
    ELSE
    LET task_path == task.path.parts
        content == task.content
        written == open_write(f, task_path, content)
    IN  IF ~exists(f, task_path)
        THEN Returned(make_task_error(task, "argument",
                 "A file or directory at path '" \o PathStr(task_path)
                 \o "' does not exist"), f, NoSpawn)
        ELSE IF is_dir(f, task_path)
        THEN Returned(make_task_error(task, "argument",
                 "A directory at path '" \o PathStr(task_path)
                 \o "' already exists"), f, NoSpawn)
        ELSE IF ~TruthyContent(content)
        THEN Returned(make_task_error(task, "argument",
                 "'content' must exist for file editing"), f, NoSpawn)
        ELSE IF written.exc # "" THEN Raised(written.exc, written.fs, NoSpawn)
        ELSE Returned(make_task_success(task), written.fs, NoSpawn)

\* task_file_delete, main.py:132-152
task_file_delete(task, f) ==
    IF ~TruthyTask(task)
    THEN Returned(make_task_error(task, "argument", "'task' must be specified"),
                  f, NoSpawn)
    ELSE IF ~task.path.has THEN Raised("TypeError", f, NoSpawn)
    ELSE
    LET task_path == task.path.parts
        removed == IF is_dir(f, task_path)
                   THEN rmtree(f, task_path)
                   ELSE unlink(f, task_path)
    IN  IF ~exists(f, task_path)
        THEN Returned(make_task_error(task, "argument",
                 "A file or directory at path '" \o PathStr(task_path)
                 \o "' does not exist"), f, NoSpawn)
        ELSE IF removed.exc # "" THEN Raised(removed.exc, removed.fs, NoSpawn)
        ELSE Returned(make_task_success(task), removed.fs, NoSpawn)

\* main.py:155-160
SAFE_COMMANDS == <<"python", "node", "git", "uv">>

\* A membership test that lets every command name through.
InSafeCommands_AnyName(cmd) == cmd.t = "str"

\* cmd in SAFE_COMMANDS
InSafeCommands(cmd) ==
    cmd.t = "str" /\ \E k \in 1..Len(SAFE_COMMANDS) : SAFE_COMMANDS[k] = cmd.s

\* What /bin/sh -c does with the argv it is started with: it runs the command
\* string argv[3]; the words after it are the shell's $0, $1, ..., not
\* arguments of the command.  A SAFE_COMMANDS name is one word without shell
\* syntax, so the shell runs that program with no arguments.
ShellExec(argv) ==
    [program |-> argv[3], args |-> <<>>, params |-> SubSeq(argv, 4, Len(argv))]

\* A run without check=True: the exit status is ignored.
subprocess_run_Unchecked(cmd, args, cwd, env, f, rc) ==
    [exc |-> "",
     spawn |-> [has |-> TRUE, argv |-> <<"/bin/sh", "-c", cmd>> \o args,
                cwd |-> cwd, env |-> env, returncode |-> rc]]

\* subprocess.run([cmd] + args, cwd=cwd, env=env, shell=True, check=True),
\* main.py:189.  With shell=True a list is run as /bin/sh -c cmd args...; the
\* child is started only if its working directory can be entered; rc is the
\* exit status the child ends with.
subprocess_run(cmd, args, cwd, env, f, rc) ==
    LET spawn == [has |-> TRUE, argv |-> <<"/bin/sh", "-c", cmd>> \o args,
                  cwd |-> cwd, env |-> env, returncode |-> rc]
    IN  IF cwd.has /\ (cwd.parts = <<>> \/ ~exists(f, cwd.parts))
        THEN [exc |-> "FileNotFoundError", spawn |-> NoSpawn]
        ELSE IF cwd.has /\ ~is_dir(f, cwd.parts)
        THEN [exc |-> "NotADirectoryError", spawn |-> NoSpawn]
        ELSE IF rc # 0 THEN [exc |-> "CalledProcessError", spawn |-> spawn]
        ELSE [exc |-> "", spawn |-> spawn]

\* task_command_run, main.py:163-191
task_command_run(task, f, rc) ==
    IF ~TruthyTask(task)
    THEN Returned(make_task_error(task, "argument", "'task' must be specified"),
                  f, NoSpawn)
    ELSE
    LET cmd == task.command
        cwd == task.path
        env == task.environment
        args == IF task.arguments.has THEN task.arguments.list ELSE <<>>
        ran == subprocess_run(cmd.s, args, cwd, env, f, rc)
    IN  IF ~Truthy(cmd)
        THEN Returned(make_task_error(task, "argument",
                 "A 'command' must be specified"), f, NoSpawn)
        ELSE IF ~InSafeCommands(cmd)
        THEN Returned(make_task_error(task, "argument",
                 "The command '" \o Str(cmd)
                 \o "' is not currently available to run"), f, NoSpawn)
        ELSE IF ran.exc # "" THEN Raised(ran.exc, f, ran.spawn)
        ELSE Returned(make_task_success(task), f, ran.spawn)

\* handler(task), main.py:229: the call of the function the registry returned.
Call(handler, task, f, rc) ==
    CASE handler = "task_file_create" -> task_file_create(task, f)
      [] handler = "task_file_edit" -> task_file_edit(task, f)
      [] handler = "task_file_delete" -> task_file_delete(task, f)
      [] handler = "task_command_run" -> task_command_run(task, f, rc)

\* A dispatcher that resolves and runs the handler before it validates the id.
run_task_ExecutesFirst(task, f, rc) ==
    LET found == get_task_action_handler(TASK_ACTION_HANDLERS, task.action)
        done == Call(found.handler, task, f, rc)
        NotRun(exc, msg, g) ==
            [kind |-> "raised", exc |-> exc, msg |-> msg, response |-> NoResponse,
             text |-> "", fs |-> g, spawn |-> NoSpawn, handler |-> ""]
    IN  IF ~TruthyTask(task) THEN NotRun("ValueError", "'task' must be specified", f)
        ELSE IF found.exc # "" THEN NotRun(found.exc, found.msg, f)
        ELSE IF ~Truthy(task.id)
        THEN NotRun("ValueError", "'task' must be have a 'id' specified", done.fs)
        ELSE [kind |-> done.kind, exc |-> done.exc, msg |-> "",
              response |-> done.response,
              text |-> IF done.kind = "returned"
                       THEN json_dumps(done.response) ELSE "",
              fs |-> done.fs, spawn |-> done.spawn, handler |-> found.handler]

\* run_task, main.py:217-230: what the call returns or raises (msg: the message
\* of a ValueError run_task or the registry raises), the filesystem it leaves,
\* the process it started and the handler it invoked.
run_task(task, f, rc) ==
    LET found == get_task_action_handler(TASK_ACTION_HANDLERS, task.action)
        done == Call(found.handler, task, f, rc)
        NotRun(exc, msg) ==
            [kind |-> "raised", exc |-> exc, msg |-> msg, response |-> NoResponse,
             text |-> "", fs |-> f, spawn |-> NoSpawn, handler |-> ""]
    IN  IF ~TruthyTask(task) THEN NotRun("ValueError", "'task' must be specified")
        ELSE IF ~Truthy(task.id)
        THEN NotRun("ValueError", "'task' must be have a 'id' specified")
        ELSE IF found.exc # "" THEN NotRun(found.exc, found.msg)
        ELSE [kind |-> done.kind, exc |-> done.exc, msg |-> "",
              response |-> done.response,
              text |-> IF done.kind = "returned"
                       THEN json_dumps(done.response) ELSE "",
              fs |-> done.fs, spawn |-> done.spawn, handler |-> found.handler]

(***************************************************************************)
(* The tasks the host hands to run_task.                                   *)
(***************************************************************************)
Names == {"a", "b"}

\* The path strings callers send: '', and relative paths below the cwd.
Paths ==
    {<<>>, <<"a">>, <<"b">>, <<"a", "a">>, <<"a", "b">>, <<"b", "a">>,
     <<"a", "a", "a">>}

PathValues == {NonePath} \cup {SomePath(p) : p \in Paths}

\* 'a' and 'e' with an acute accent (U+00E9).
Values == {<<>>, <<97>>, <<233>>}

ContentValues ==
    {NoneContent, Content({}, <<>>, ""), Content({"encoding"}, <<>>, "ascii")}
    \cup {Content({"value"}, v, "") : v \in Values}
    \cup {Content({"value", "encoding"}, <<233>>, e) : e \in {"ascii", "latin-1"}}
    \cup {Content({"value", "encoding"}, <<97>>, "bogus")}

IdValues == {PyNone, PyInt(0), PyStr(""), PyStr("t1"), PyInt(7)}

ActionValues ==
    {PyNone, PyStr(""), PyStr("bogus")} \cup {PyStr(TASKS[k][1]) : k \in 1..Len(TASKS)}

CommandValues ==
    {PyNone, PyStr(""), PyStr("curl")}
    \cup {PyStr(SAFE_COMMANDS[k]) : k \in 1..Len(SAFE_COMMANDS)}

ArgumentValues == {NoneArgs, SomeArgs(<<"x", "y">>)}

EnvironmentValues == {NoneEnv, SomeEnv([k \in {"K"} |-> "v"])}

ExitStatuses == {0, 1}

FileTasks ==
    {[EmptyTask EXCEPT !.id = PyStr("t1"), !.action = PyStr(a),
                       !.path = p, !.content = c] :
        a \in {"file/create", "file/edit"}, p \in PathValues, c \in ContentValues}
    \cup {[EmptyTask EXCEPT !.id = PyStr("t1"), !.action = PyStr("file/delete"),
                            !.path = p] : p \in PathValues}

CommandTasks ==
    {[EmptyTask EXCEPT !.id = PyStr("t1"), !.action = PyStr("command/run"),
                       !.command = c, !.path = p, !.arguments = g,
                       !.environment = e] :
        c \in CommandValues, p \in {NonePath, SomePath(<<"a">>)},
        g \in ArgumentValues, e \in EnvironmentValues}

\* Every id with every action, on a file task and a command task.
EnvelopeTasks ==
    {EmptyTask}
    \cup {[EmptyTask EXCEPT !.id = i, !.action = a, !.path = SomePath(<<"a", "b">>),
                            !.command = PyStr("git")] :
            i \in IdValues, a \in ActionValues}

Tasks == FileTasks \cup CommandTasks \cup EnvelopeTasks

(***************************************************************************)
(* The state machine.                                                      *)
(***************************************************************************)
\* The working directory the server starts in: a directory a holding a
\* directory a/a with a file a/a/a, and a file b.
InitialFs ==
    [p \in {<<>>, <<"a">>, <<"a", "a">>, <<"a", "a", "a">>, <<"b">>} |->
        CASE p = <<"a", "a", "a">> -> File(<<97>>)
          [] p = <<"b">> -> File(<<195, 169>>)
          [] OTHER -> Dir]

NoCall ==
    [task |-> EmptyTask, before |-> InitialFs, kind |-> "none", exc |-> "",
     msg |-> "", response |-> NoResponse, text |-> "", spawn |-> NoSpawn, handler |-> ""]

Init ==
    /\ TASK_ACTION_HANDLERS = RegisterAll(Len(TASKS))
    /\ fs = InitialFs
    /\ served = 0
    /\ last = NoCall

\* The host calls run_task(task); the child of a command/run ends with rc.
Serve ==
    /\ served < MaxTasks
    /\ \E task \in Tasks :
       \E rc \in IF InSafeCommands(task.command) THEN ExitStatuses ELSE {0} :
       \E r \in {run_task(task, fs, rc)} :
          /\ served' = served + 1
          /\ fs' = r.fs
          /\ last' = [task |-> task, before |-> fs, kind |-> r.kind,
                      exc |-> r.exc, msg |-> r.msg, response |-> r.response,
                      text |-> r.text,
                      spawn |-> r.spawn, handler |-> r.handler]
          /\ UNCHANGED TASK_ACTION_HANDLERS

Next == Serve

Spec == Init /\ [][Next]_vars

TypeOK ==
    /\ served \in 0..MaxTasks
    /\ <<>> \in DOMAIN fs
    /\ \A p \in DOMAIN fs : p = <<>> \/ is_dir(fs, Parent(p))

(***************************************************************************)
(* Properties.  Each speaks of the last run_task invocation: its task, the *)
(* filesystem before (last.before) and after (fs), and its outcome.        *)
(***************************************************************************)
Called == last.kind # "none"

ReturnedOk == last.kind = "returned" /\ last.response.success

\* An 'argument' error Result came back.
ReturnedArgumentError ==
    /\ last.kind = "returned"
    /\ ~last.response.success
    /\ "error" \in DOMAIN last.response
    /\ last.response.error.type = "argument"

\* The path the last task carried ('' is <<>>).
LastPath == last.task.path.parts

\* C1: command/run starts no process unless the task's command is one of
\* python, node, git, uv: a command/run task whose command is absent (or empty)
\* or is not one of the four gets an 'argument' error Result, whose message
\* names the command when one was given, and no process is started; and any
\* process that was started runs one of the four.
C1_NoSpawnUnlessAllowed ==
    /\ last.handler = "task_command_run"
       /\ ~(last.task.command.t = "str"
            /\ last.task.command.s \in {"python", "node", "git", "uv"})
       => /\ ReturnedArgumentError
          /\ ~last.spawn.has
          /\ fs = last.before
          /\ Truthy(last.task.command)
             => last.response.error.message
                  = "The command '" \o Str(last.task.command)
                    \o "' is not currently available to run"
    /\ last.spawn.has
       => /\ last.handler = "task_command_run"
          /\ last.task.command.t = "str"
          /\ last.task.command.s \in {"python", "node", "git", "uv"}
          /\ last.spawn.argv[3] = last.task.command.s

\* C1's case: curl was asked for, with arguments, and refused.
C1_Witness ==
    /\ last.handler = "task_command_run"
    /\ last.task.command = PyStr("curl")
    /\ last.task.arguments.has
    /\ ReturnedArgumentError
    /\ ~last.spawn.has

\* C2: whenever run_task returns a Result, success or error, the Result's id
\* and action are the task's id and action.
C2_ResultCarriesIdAndAction ==
    last.kind = "returned"
    => /\ last.response.id = last.task.id
       /\ last.response.action = last.task.action

\* C2's case: an error Result for the task with id 7.
C2_Witness ==
    /\ last.kind = "returned"
    /\ ~last.response.success
    /\ last.task.id = PyInt(7)
    /\ last.response.id = PyInt(7)

\* C3: every Result is either success = true without an error key, or
\* success = false with an error object holding type and message.
C3_SuccessXorError ==
    last.kind = "returned"
    => \/ /\ last.response.success = TRUE
          /\ "error" \notin DOMAIN last.response
       \/ /\ last.response.success = FALSE
          /\ "error" \in DOMAIN last.response
          /\ DOMAIN last.response.error = {"type", "message"}

\* C3's case: a success Result of a handler that changed the filesystem.
C3_Witness ==
    /\ ReturnedOk
    /\ "error" \notin DOMAIN last.response
    /\ fs # last.before

\* C4: file/create on a path where a file or a directory exists returns an
\* 'argument' error Result and leaves the whole filesystem as it was, with or
\* without content in the task.
C4_CreateNeverOverwrites ==
    /\ last.handler = "task_file_create"
    /\ last.task.path.has
    /\ exists(last.before, LastPath)
    => /\ ReturnedArgumentError
       /\ fs = last.before
       /\ ~last.spawn.has

\* C4's case: a create with content on the existing non-empty file b.
C4_Witness ==
    /\ last.handler = "task_file_create"
    /\ LastPath = <<"b">>
    /\ TruthyContent(last.task.content)
    /\ exists(last.before, LastPath)
    /\ last.before[LastPath].kind = "file"
    /\ last.before[LastPath].bytes # <<>>
    /\ ReturnedArgumentError

\* A fresh path whose parent directory exists.
FreshPath(f, p) == p # <<>> /\ ~exists(f, p) /\ is_dir(f, Parent(p))

\* The encoding a content names, UTF-8 when it names none.
EncodingOf(content) ==
    IF "encoding" \in content.keys THEN content.encoding ELSE "utf-8"

\* C5 as stated: file/create on a fresh path whose parent exists returns
\* success; without content it makes an empty directory there, and whenever
\* content is present it makes a file whose bytes are content.value under
\* content.encoding (UTF-8 by default); nothing else changes.
C5_CreateMakesDirOrFile ==
    /\ last.handler = "task_file_create"
    /\ last.task.path.has
    /\ FreshPath(last.before, LastPath)
    => /\ ReturnedOk
       /\ DOMAIN fs = DOMAIN last.before \cup {LastPath}
       /\ \A q \in DOMAIN last.before : fs[q] = last.before[q]
       /\ IF ~last.task.content.has
          THEN fs[LastPath] = Dir
          ELSE /\ fs[LastPath].kind = "file"
               /\ "value" \in last.task.content.keys
               /\ fs[LastPath].bytes
                    = Encode(last.task.content.value, EncodingOf(last.task.content))

\* C6 as stated: file/edit on a missing path or on a directory returns an
\* 'argument' error Result and changes nothing; on an existing file with
\* content supplied (a non-empty content object) it returns success and the
\* file then holds exactly content.value (under content.encoding), nothing
\* else having changed.
C6_EditReplacesContent ==
    /\ last.handler = "task_file_edit"
    /\ last.task.path.has
    => IF ~exists(last.before, LastPath) \/ is_dir(last.before, LastPath)
       THEN ReturnedArgumentError /\ fs = last.before
       ELSE TruthyContent(last.task.content)
            => /\ ReturnedOk
               /\ "value" \in last.task.content.keys
               /\ fs = Put(last.before, LastPath,
                           File(Encode(last.task.content.value,
                                       EncodingOf(last.task.content))))

C8_RaisesBeforeHandler ==
    /\ Called
    /\ \/ last.task = EmptyTask
       \/ last.task.id.t = "none"
       \/ last.task.action.t # "str"
       \/ last.task.action.s
            \notin {"file/create", "file/edit", "file/delete", "command/run"}
    => /\ last.kind = "raised"
       /\ last.exc = "ValueError"
       /\ last.handler = ""
       /\ fs = last.before
       /\ ~last.spawn.has

\* C8's case: a file/create on a fresh path, but without an id.
C8_Witness ==
    /\ Called
    /\ last.task.id.t = "none"
    /\ last.task.action = PyStr("file/create")
    /\ last.task.path.has
    /\ FreshPath(last.before, LastPath)
    /\ last.kind = "raised"
    /\ last.handler = ""

\* C9 as stated: the id is opaque: whatever value a task's id has, run_task
\* does not reject the task for lacking an id, and a Result carries that value.
C9_AnyIdAccepted ==
    /\ Called
    /\ last.task.id.t # "none"
    => /\ ~(last.kind = "raised"
            /\ last.msg = "'task' must be have a 'id' specified")
       /\ last.kind = "returned" => last.response.id = last.task.id

\* C10 as stated: file/create, file/edit and file/delete of a task whose path
\* is absent or empty return an 'argument' error Result, do not raise, and
\* leave the filesystem as it was.
C10_MissingPathIsArgumentError ==
    /\ Called
    /\ last.task # EmptyTask
    /\ Truthy(last.task.id)
    /\ last.task.action.t = "str"
    /\ last.task.action.s \in {"file/create", "file/edit", "file/delete"}
    /\ (~last.task.path.has \/ LastPath = <<>>)
    => /\ ReturnedArgumentError
       /\ fs = last.before

\* The last task's command is one of the four allowed names.
AllowedCommand ==
    /\ last.task.command.t = "str"
    /\ last.task.command.s \in {"python", "node", "git", "uv"}

\* C11 as stated: command/run with an allowed command starts exactly that
\* command, with the task's arguments as its argument list, in order (none
\* when arguments is absent), in the task's path as working directory (the
\* server's when absent) and with the task's environment (the host's when
\* absent).
C11_RunsCommandWithArguments ==
    /\ last.handler = "task_command_run"
    /\ AllowedCommand
    /\ (last.task.path.has => LastPath # <<>> /\ is_dir(last.before, LastPath))
    => /\ last.spawn.has
       /\ ShellExec(last.spawn.argv).program = last.task.command.s
       /\ ShellExec(last.spawn.argv).args
            = (IF last.task.arguments.has THEN last.task.arguments.list ELSE <<>>)
       /\ last.spawn.cwd = last.task.path
       /\ last.spawn.env = last.task.environment

\* C12: command/run is synchronous and asymmetric on failure: a command/run
\* task gets a success Result only when its child was started and has ended
\* with exit status 0; when the child ends with another status the call raises
\* (CalledProcessError) past the handler and run_task and no Result, success
\* or error, is returned.
C12_SuccessOnlyAfterZeroExit ==
    last.handler = "task_command_run"
    => /\ ReturnedOk => last.spawn.has /\ last.spawn.returncode = 0
       /\ last.spawn.has /\ last.spawn.returncode = 0 => ReturnedOk
       /\ last.spawn.has /\ last.spawn.returncode # 0
          => /\ last.kind = "raised"
             /\ last.exc = "CalledProcessError"
             /\ last.response = NoResponse
             /\ last.text = ""

\* C12's case: an allowed command whose child ended with status 1.
C12_Witness ==
    /\ last.handler = "task_command_run"
    /\ AllowedCommand
    /\ last.spawn.has
    /\ last.spawn.returncode = 1
    /\ last.kind = "raised"

\* C15: the registry is fixed after startup: in every state reached by any
\* sequence of run_task invocations, valid or invalid, the table holds exactly
\* the four startup bindings, each to its own handler.
C15_RegistryFixed ==
    /\ DOMAIN TASK_ACTION_HANDLERS
         = {"file/create", "file/edit", "file/delete", "command/run"}
    /\ TASK_ACTION_HANDLERS["file/create"] = "task_file_create"
    /\ TASK_ACTION_HANDLERS["file/edit"] = "task_file_edit"
    /\ TASK_ACTION_HANDLERS["file/delete"] = "task_file_delete"
    /\ TASK_ACTION_HANDLERS["command/run"] = "task_command_run"

\* C15's case: a task that changed the filesystem was served, then one that
\* run_task rejected for its unknown action; the table still has four entries.
C15_Witness ==
    /\ served = 2
    /\ last.before # InitialFs
    /\ last.kind = "raised"
    /\ last.task.action = PyStr("bogus")
    /\ Cardinality(DOMAIN TASK_ACTION_HANDLERS) = 4

\* C16: file/edit on an existing file with content absent returns an
\* 'argument' error Result and leaves the file, and everything else, as it was.
C16_EditWithoutContentKeepsFile ==
    /\ last.handler = "task_file_edit"
    /\ last.task.path.has
    /\ exists(last.before, LastPath)
    /\ ~is_dir(last.before, LastPath)
    /\ ~last.task.content.has
    => /\ ReturnedArgumentError
       /\ fs = last.before
       /\ fs[LastPath] = last.before[LastPath]

\* C16's case: an edit without content of the non-empty file b.
C16_Witness ==
    /\ last.handler = "task_file_edit"
    /\ LastPath = <<"b">>
    /\ ~last.task.content.has
    /\ exists(last.before, LastPath)
    /\ last.before[LastPath].kind = "file"
    /\ last.before[LastPath].bytes # <<>>
    /\ ReturnedArgumentError
    /\ fs[LastPath].bytes = last.before[LastPath].bytes

(***************************************************************************)
(* The registry on its own: register_task_action_handler called with any   *)
(* sequence of (action, handler) pairs on a table that starts empty, as    *)
(* TASK_ACTION_HANDLERS does at main.py:41.  'last' holds the log of the    *)
(* calls: the table before, the arguments, and the exception if any.       *)
(***************************************************************************)
MaxRegistrations == 3

RegistryActions == {"file/create", "file/edit", "command/run"}

RegistryHandlers == {"task_file_create", "task_file_edit", "task_command_run"}

InitRegistry ==
    /\ TASK_ACTION_HANDLERS = [a \in {} |-> ""]
    /\ fs = InitialFs
    /\ served = 0
    /\ last = [log |-> <<>>]

Register ==
    /\ served < MaxRegistrations
    /\ \E action \in RegistryActions, handler \in RegistryHandlers :
       \E r \in {register_task_action_handler(TASK_ACTION_HANDLERS, action, handler)} :
          /\ TASK_ACTION_HANDLERS' = r.reg
          /\ served' = served + 1
          /\ last' = [log |-> Append(last.log,
                         [before |-> TASK_ACTION_HANDLERS, action |-> action,
                          handler |-> handler, exc |-> r.exc])]
          /\ UNCHANGED fs

NextRegistry == Register

SpecRegistry == InitRegistry /\ [][NextRegistry]_vars

\* The index of the first call in the log that named action a.
FirstRegistration(a) ==
    CHOOSE i \in 1..Len(last.log) :
        /\ last.log[i].action = a
        /\ \A j \in 1..(i - 1) : last.log[j].action # a

\* C13: a registration fails (ValueError) exactly when the action is already
\* bound and succeeds otherwise; after any sequence of registrations the lookup
\* of an action that was named returns the handler of the first registration of
\* it, which is the only one that succeeded, and an action never named is
\* not bound.
C13_RegistryUniqueness ==
    /\ \A i \in 1..Len(last.log) :
          /\ last.log[i].exc =
               (IF last.log[i].action \in DOMAIN last.log[i].before
                THEN "ValueError" ELSE "")
          /\ (last.log[i].exc = "") <=> (i = FirstRegistration(last.log[i].action))
    /\ \A a \in RegistryActions :
          IF \E i \in 1..Len(last.log) : last.log[i].action = a
          THEN get_task_action_handler(TASK_ACTION_HANDLERS, PyStr(a))
                 = [exc |-> "", msg |-> "",
                    handler |-> last.log[FirstRegistration(a)].handler]
          ELSE get_task_action_handler(TASK_ACTION_HANDLERS, PyStr(a)).exc
                 = "ValueError"

\* C13's case: an action registered, then registered again with another
\* handler, which failed and left the first binding in place.
C13_Witness ==
    /\ Len(last.log) >= 2
    /\ last.log[1].action = last.log[2].action
    /\ last.log[1].handler # last.log[2].handler
    /\ last.log[1].exc = ""
    /\ last.log[2].exc = "ValueError"
    /\ TASK_ACTION_HANDLERS[last.log[1].action] = last.log[1].handler

(***************************************************************************)
(* Create, delete, delete again.  Some tasks are served first, so that the *)
(* round trip starts from any filesystem the server can be left with; then *)
(* a file/create is served, and if it succeeded a file/delete of the same  *)
(* path, and another.  'last' is the record of the latest call, as in      *)
(* Serve, with the position in the round trip (stage), the filesystem      *)
(* before the create (start) and the create task (created).                *)
(***************************************************************************)
CreateTasks == {t \in FileTasks : t.action = PyStr("file/create")}

DeleteOf(task) ==
    [EmptyTask EXCEPT !.id = PyStr("t2"), !.action = PyStr("file/delete"),
                      !.path = task.path]

RoundTripCall(task, f, r, stage, start, created) ==
    [task |-> task, before |-> f, kind |-> r.kind, exc |-> r.exc, msg |-> r.msg,
     response |-> r.response, text |-> r.text, spawn |-> r.spawn,
     handler |-> r.handler, stage |-> stage, start |-> start, created |-> created]

\* A task served before the round trip; only what it does to the files matters.
RT_Setup ==
    /\ last = NoCall
    /\ served < MaxTasks
    /\ \E task \in Tasks :
       \E rc \in IF InSafeCommands(task.command) THEN ExitStatuses ELSE {0} :
       \E r \in {run_task(task, fs, rc)} :
          /\ served' = served + 1
          /\ fs' = r.fs
          /\ UNCHANGED <<TASK_ACTION_HANDLERS, last>>

RT_Create ==
    /\ last = NoCall
    /\ \E task \in CreateTasks :
       \E r \in {run_task(task, fs, 0)} :
          /\ fs' = r.fs
          /\ last' = RoundTripCall(task, fs, r, 1, fs, task)
          /\ UNCHANGED <<TASK_ACTION_HANDLERS, served>>

\* The delete that follows a successful create, and the one after that.
RT_Delete ==
    /\ last # NoCall
    /\ last.stage \in {1, 2}
    /\ last.stage = 1 => ReturnedOk
    /\ \E r \in {run_task(DeleteOf(last.created), fs, 0)} :
          /\ fs' = r.fs
          /\ last' = RoundTripCall(DeleteOf(last.created), fs, r,
                                   last.stage + 1, last.start, last.created)
          /\ UNCHANGED <<TASK_ACTION_HANDLERS, served>>

NextRoundTrip == RT_Setup \/ RT_Create \/ RT_Delete

SpecRoundTrip == Init /\ [][NextRoundTrip]_vars

\* C17: a successful file/create (with or without content) immediately
\* followed by file/delete of the same path: the delete succeeds and the
\* filesystem equals the one before the create; a further file/delete of the
\* path returns an 'argument' error and changes nothing.
C17_CreateDeleteRoundTrip ==
    last # NoCall =>
       /\ last.stage = 2 => /\ last.handler = "task_file_delete"
                            /\ ReturnedOk
                            /\ fs = last.start
       /\ last.stage = 3 => /\ last.handler = "task_file_delete"
                            /\ ReturnedArgumentError
                            /\ fs = last.start

\* C17's case: after other tasks had changed the filesystem, a file was
\* created with content, deleted, and deleted again.
C17_Witness ==
    /\ last # NoCall
    /\ last.stage = 3
    /\ last.start # InitialFs
    /\ TruthyContent(last.created.content)
    /\ Len(last.created.content.value) > 0
    /\ FreshPath(last.start, last.created.path.parts)
    /\ ReturnedArgumentError

(***************************************************************************)
(* file/create served concurrently.  The handler takes no lock, so between *)
(* its steps another worker's steps can run: the test path.exists()        *)
(* (main.py:75), then mkdir() (main.py:85) or open(mode='w') (main.py:87),  *)
(* which creates or truncates the file, then the write of the encoded      *)
(* value at offset 0 of the worker's own descriptor when the file is       *)
(* closed (main.py:87-89).  'last' maps each worker to its task, its       *)
(* position in the handler and, once it is done, its outcome.              *)
(***************************************************************************)
NumWorkers == 2

Workers == 1..NumWorkers

\* The fresh path a/b and the existing file b; no content, 'a', e-acute.
ConcurrentTasks ==
    {[EmptyTask EXCEPT !.id = PyStr("t1"), !.action = PyStr("file/create"),
                       !.path = SomePath(p), !.content = c] :
        p \in {<<"a", "b">>, <<"b">>},
        c \in {NoneContent} \cup {Content({"value"}, v, "") : v \in {<<97>>, <<233>>}}}

Idle == [pc |-> "idle", task |-> EmptyTask, kind |-> "none", exc |-> "",
         response |-> NoResponse]

Done(task, r) ==
    [pc |-> "done", task |-> task, kind |-> r.kind, exc |-> r.exc,
     response |-> r.response]

\* What is in the file after 'bytes' is written at offset 0 over 'old'.
WriteAtStart(old, bytes) == bytes \o SubSeq(old, Len(bytes) + 1, Len(old))

InitConcurrent ==
    /\ TASK_ACTION_HANDLERS = RegisterAll(Len(TASKS))
    /\ fs = InitialFs
    /\ served = 0
    /\ last = [w \in Workers |-> Idle]

\* main.py:68-80: the worker takes a task and tests whether the path exists.
CreateCheck(w) ==
    /\ last[w].pc = "idle"
    /\ \E task \in ConcurrentTasks :
          /\ last' = [last EXCEPT ![w] =
                 IF exists(fs, task.path.parts)
                 THEN Done(task, task_file_create(task, fs))
                 ELSE [Idle EXCEPT !.pc = "checked", !.task = task]]
          /\ served' = served + 1
          /\ UNCHANGED <<TASK_ACTION_HANDLERS, fs>>

\* main.py:82-87: mkdir(), or open(mode='w'), on the filesystem as it is now.
CreateOpen(w) ==
    /\ last[w].pc = "checked"
    /\ LET task == last[w].task
           task_path == task.path.parts
       IN  IF ~TruthyContent(task.content)
           THEN \E made \in {mkdir(fs, task_path)} :
                   /\ fs' = made.fs
                   /\ last' = [last EXCEPT ![w] = Done(task,
                                 IF made.exc # "" THEN Raised(made.exc, made.fs, NoSpawn)
                                 ELSE Returned(make_task_success(task), made.fs, NoSpawn))]
           ELSE \E made \in {open_write(fs, task_path, task.content)} :
                   IF made.exc # ""
                   THEN /\ fs' = made.fs
                        /\ last' = [last EXCEPT ![w] =
                                      Done(task, Raised(made.exc, made.fs, NoSpawn))]
                   ELSE /\ fs' = Put(fs, task_path, File(<<>>))
                        /\ last' = [last EXCEPT ![w].pc = "opened"]
    /\ UNCHANGED <<TASK_ACTION_HANDLERS, served>>

\* main.py:88-91: the value is written and the file closed; success.
CreateWrite(w) ==
    /\ last[w].pc = "opened"
    /\ LET task == last[w].task
           task_path == task.path.parts
           bytes == Encode(task.content.value, EncodingOf(task.content))
       IN  /\ fs' = IF exists(fs, task_path) /\ ~is_dir(fs, task_path)
                    THEN Put(fs, task_path,
                             File(WriteAtStart(fs[task_path].bytes, bytes)))
                    ELSE fs
           /\ last' = [last EXCEPT ![w] =
                         Done(task, Returned(make_task_success(task), fs', NoSpawn))]
    /\ UNCHANGED <<TASK_ACTION_HANDLERS, served>>

NextConcurrent == \E w \in Workers : CreateCheck(w) \/ CreateOpen(w) \/ CreateWrite(w)

SpecConcurrent == InitConcurrent /\ [][NextConcurrent]_vars

WorkerOk(w) ==
    last[w].pc = "done" /\ last[w].kind = "returned" /\ last[w].response.success

WorkerArgumentError(w) ==
    /\ last[w].pc = "done"
    /\ last[w].kind = "returned"
    /\ ~last[w].response.success
    /\ last[w].response.error.type = "argument"

\* What a create task alone leaves at its path.
EntryOf(task) ==
    IF ~TruthyContent(task.content) THEN Dir
    ELSE File(Encode(task.content.value, EncodingOf(task.content)))

\* C14 as stated: when two workers have each finished a file/create on the
\* same path, which was fresh when they started, at most one of them returned
\* success; if one did, the entry at the path is that task's and the other
\* returned an 'argument' error.
C14_ConcurrentCreateNeverOverwrites ==
    \A v \in Workers : \A w \in Workers \ {v} :
        /\ last[v].pc = "done"
        /\ last[w].pc = "done"
        /\ last[v].task.path = last[w].task.path
        /\ FreshPath(InitialFs, last[v].task.path.parts)
        => /\ ~(WorkerOk(v) /\ WorkerOk(w))
           /\ WorkerOk(v) => /\ WorkerArgumentError(w)
                             /\ fs[last[v].task.path.parts] = EntryOf(last[v].task)
====
